---- MODULE Spec2Model ----
\* The stress-testing and latency-benchmarking harness of the HFT pipeline:
\* StressTestMetrics, MarketDataGenerator, StressTester with its phases and
\* run_all_tests (src/tests/stress_test_generator.py) and the LatencyMonitor
\* with its measurements and run_full_latency_analysis
\* (src/tests/latency_monitor.py).
\*
\* Time is counted in milliseconds: `now` is the reading of time.time() in ms, so
\* (time.time() - start) * 1000 is a plain difference of two readings.
\* A Python float that is a quotient (throughput, error rate, mean) is kept as the
\* reduced fraction <<numerator, denominator>>; an optional value (None or a value)
\* is <<>> or <<value>>.
EXTENDS Integers, Sequences, FiniteSets, TLC

VARIABLES
    now,        \* the wall clock, ms
    metrics,    \* the StressTestMetrics object self.metrics refers to
    stats,      \* the value returned by the latest get_stats, None before any
    prev,       \* the value returned by the get_stats before that one
    analysis,   \* the value returned by the latest _analyze_latencies, None before any
    hist,       \* history: what has been asked of the metrics object so far
    conn,       \* self.conn of the StressTester: None or an open connection
    mode,       \* what the script was started to run: "suite" or one phase
    phase,      \* the phase that is running or has run last
    pc,         \* where the main thread is
    loc,        \* the arguments and local variables of the running phase
    result,     \* the value the phase returned, None before it returns
    workers,    \* the threads of the concurrent phase
    generator,  \* self.generator of the StressTester: None or a MarketDataGenerator
    suite,      \* run_all_tests: its locals stats1..stats5 and the file it writes
    sink,       \* how the sink answers during this run: "fast", "slow" or "steady"
    initial_prices, \* the initial_prices argument a MarketDataGenerator was built with
    prices,     \* self.prices of that MarketDataGenerator
    bar,        \* the bar its latest generate_bar returned, None before any
    monitor     \* the LatencyMonitor: its connections and run_full_latency_analysis

testerVars == <<conn, mode, phase, pc, loc, result, workers, generator, suite>>
genVars == <<sink, initial_prices, prices, bar>>
vars == <<now, metrics, stats, prev, analysis, hist, conn, mode, phase, pc, loc, result, workers,
          generator, suite, sink, initial_prices, prices, bar, monitor>>

\* ---------------------------------------------------------------- bounds
MaxTime == 2        \* clock readings 0..MaxTime in the object-level specification
MaxCalls == 3       \* record_message / record_error calls on one metrics object
MaxLatency == 1     \* latency values 0..MaxLatency (ms)
MaxSamples == 100   \* longest latency list handed to the statistics
MaxSymbols == 2     \* symbols handed to a phase
MaxMessages == 2    \* messages_per_symbol, messages_per_connection
MaxConnections == 2 \* num_connections
MaxDuration == 2    \* length of a timed phase, in pacing intervals
MaxConcTime == 1    \* clock readings 0..MaxConcTime while the workers run
SuiteScale == 1     \* messages, connections' messages and ms run_all_tests asks of a phase
MaxChange == 2      \* change_pct of generate_bar: up to MaxChange thousandths either way
MaxOffset == 1      \* the draws for high and low: up to MaxOffset thousandths
MaxBars == 2        \* generate_bar calls on one MarketDataGenerator
MaxIterations == 2  \* passes of the loop of one measurement of the LatencyMonitor

\* ---------------------------------------------------------------- values
None == <<>>
Some(x) == <<x>>
IsNone(o) == o = <<>>
Val(o) == o[1]

RECURSIVE GCD(_, _)
GCD(a, b) == IF b = 0 THEN a ELSE GCD(b, a % b)

\* n / d as Python's true division gives it, d > 0
Frac(n, d) == LET g == GCD(n, d) IN <<n \div g, d \div g>>
Zero == <<0, 1>>

\* threading.Lock: free, or held by a thread
Free == None

\* ---------------------------------------------------------------- StressTestMetrics
\* __init__
StressTestMetrics ==
    [messages_sent |-> 0, errors |-> 0, latencies |-> <<>>,
     start_time |-> None, lock |-> Free]

\* `if latency_ms:` -- the truth value of the argument
Truthy(latency_ms) == ~IsNone(latency_ms) /\ Val(latency_ms) # 0

\* `with self.lock:` entered by owner `who`; the caller checks LockAvailable first
\* a lock that never makes a thread wait
LockAvailableAlways(m) == TRUE
LockAvailable(m) == m.lock = Free
Acquire(m, who) == [m EXCEPT !.lock = Some(who)]

\* the end of the `with` block
\* leaving the block without giving the lock back
ReleaseForgotten(m) == m

Release(m) == [m EXCEPT !.lock = Free]

\* counting the message only when its latency is appended
record_message_store_counted_with_latency(m, loaded, latency_ms) ==
    Release([m EXCEPT !.messages_sent = IF Truthy(latency_ms) THEN loaded + 1 ELSE loaded,
                      !.latencies = IF Truthy(latency_ms)
                                    THEN Append(@, Val(latency_ms)) ELSE @])

\* record_message, the body under the lock: `loaded` is the value of
\* self.messages_sent read by `+= 1` before it stores the sum.
record_message_store(m, loaded, latency_ms) ==
    Release([m EXCEPT !.messages_sent = loaded + 1,
                      !.latencies = IF Truthy(latency_ms)
                                    THEN Append(@, Val(latency_ms)) ELSE @])

\* record_message called with no other thread running
record_message(m, latency_ms) ==
    record_message_store(Acquire(m, "main"), m.messages_sent, latency_ms)

\* record_error, the body under the lock
record_error_store(m, loaded) == Release([m EXCEPT !.errors = loaded + 1])

\* record_error called with no other thread running
\* taking the failed message back out of messages_sent
record_error_uncounting(m) ==
    record_error_store([Acquire(m, "main") EXCEPT
                           !.messages_sent = IF @ > 0 THEN @ - 1 ELSE @],
                       m.errors)

record_error(m) == record_error_store(Acquire(m, "main"), m.errors)

\* ---------------------------------------------------------------- statistics
\* sorted(...): the ascending list. The values between lo and hi are split at the
\* middle of the range, each half is put in order, and the halves are joined.
RECURSIVE SortRange(_, _, _)
SortRange(s, lo, hi) ==
    IF s = <<>> \/ lo >= hi THEN s
    ELSE LET mid == (lo + hi) \div 2
             Low(x) == x <= mid
             High(x) == x > mid
         IN  SortRange(SelectSeq(s, Low), lo, mid)
                 \o SortRange(SelectSeq(s, High), mid + 1, hi)

min(s) == CHOOSE x \in {s[i] : i \in 1..Len(s)} : \A i \in 1..Len(s) : x <= s[i]
max(s) == CHOOSE x \in {s[i] : i \in 1..Len(s)} : \A i \in 1..Len(s) : x >= s[i]

\* reading the list in recording order
sorted_unsorted(s) == s

\* the list from the largest value to the smallest
sorted_descending(s) ==
    IF s = <<>> THEN <<>>
    ELSE LET a == SortRange(s, min(s), max(s)) IN [i \in 1..Len(a) |-> a[Len(a) + 1 - i]]

sorted(s) == IF s = <<>> THEN <<>> ELSE SortRange(s, min(s), max(s))

RECURSIVE SumRange(_, _, _)
SumRange(s, lo, hi) ==
    IF lo > hi THEN 0
    ELSE IF lo = hi THEN s[lo]
    ELSE LET mid == (lo + hi) \div 2 IN SumRange(s, lo, mid) + SumRange(s, mid + 1, hi)

sum(s) == SumRange(s, 1, Len(s))
sumsq(s) == SumRange([i \in 1..Len(s) |-> s[i] * s[i]], 1, Len(s))

\* Python's 0-based sorted_lat[k]; an index outside 0..len-1 raises IndexError
IndexInRange(s, k) == k \in 0..(Len(s) - 1)
At(s, k) == s[k + 1]

\* len(sorted_lat) // 2, int(len(sorted_lat) * 0.95), int(len(sorted_lat) * 0.99):
\* the float products truncate to floor(n*95/100) and floor(n*99/100) for every
\* list length a run can hold.
P50Index(n) == n \div 2
P95Index(n) == (n * 95) \div 100
\* rounding the position up instead of down
P99IndexCeil(n) == (n * 99 + 99) \div 100
P99Index(n) == (n * 99) \div 100

\* whether building the dict reads sorted_lat out of range
get_stats_raises(m) ==
    /\ m.latencies # <<>>
    /\ \E k \in {P50Index(Len(m.latencies)), P95Index(Len(m.latencies)),
                 P99Index(Len(m.latencies))} : ~IndexInRange(m.latencies, k)

_analyze_latencies_raises(latencies) ==
    /\ latencies # <<>>
    /\ \E k \in {P95Index(Len(latencies)), P99Index(Len(latencies))} :
           ~IndexInRange(latencies, k)

\* the dict built under `if self.latencies:`; {} otherwise
latency_stats(lat) ==
    IF lat = <<>> THEN None
    ELSE LET sorted_lat == sorted(lat) IN
         Some([min |-> min(lat),
               max |-> max(lat),
               avg |-> Frac(sum(lat), Len(lat)),
               p50 |-> At(sorted_lat, P50Index(Len(sorted_lat))),
               p95 |-> At(sorted_lat, P95Index(Len(sorted_lat))),
               p99 |-> At(sorted_lat, P99Index(Len(sorted_lat)))])

\* dividing the errors by all the attempts, those that failed included
get_stats_rate_of_attempts(m, t) ==
    LET duration == IF ~IsNone(m.start_time) THEN t - Val(m.start_time) ELSE 0
        throughput == IF duration > 0 THEN Frac(m.messages_sent, duration) ELSE Zero
    IN  Some([messages_sent |-> m.messages_sent,
              errors |-> m.errors,
              duration_seconds |-> duration,
              throughput_msg_per_sec |-> throughput,
              error_rate |-> IF m.messages_sent + m.errors > 0
                             THEN Frac(m.errors, m.messages_sent + m.errors) ELSE Zero,
              latency_ms |-> latency_stats(m.latencies)])

\* get_stats read at clock reading t. duration_seconds is kept in ms and
\* throughput_msg_per_sec as messages per ms. `if self.start_time` tells a start
\* time that was set from None: time.time() is never 0.0, and the clock of the
\* model counts from the start of the script.
get_stats(m, t) ==
    LET duration == IF ~IsNone(m.start_time) THEN t - Val(m.start_time) ELSE 0
        throughput == IF duration > 0 THEN Frac(m.messages_sent, duration) ELSE Zero
    IN  Some([messages_sent |-> m.messages_sent,
              errors |-> m.errors,
              duration_seconds |-> duration,
              throughput_msg_per_sec |-> throughput,
              error_rate |-> IF m.messages_sent > 0
                             THEN Frac(m.errors, m.messages_sent) ELSE Zero,
              latency_ms |-> latency_stats(m.latencies)])

\* the metrics object when get_stats returns: the lock is released, no field is assigned
\* starting the counters afresh after every reading
after_get_stats_reset(m) ==
    Release([m EXCEPT !.messages_sent = 0, !.errors = 0, !.latencies = <<>>])

\* handing the samples out and starting afresh
after_get_stats_drain(m) == Release([m EXCEPT !.latencies = <<>>])
after_get_stats(m) == Release(Acquire(m, "main"))

\* statistics.median
median(lat) ==
    LET s == sorted(lat)
        n == Len(s)
    IN  IF n % 2 = 1 THEN Frac(At(s, n \div 2), 1)
        ELSE Frac(At(s, n \div 2 - 1) + At(s, n \div 2), 2)

\* statistics.stdev squared: the sample variance
variance(lat) ==
    LET n == Len(lat) IN Frac(n * sumsq(lat) - sum(lat) * sum(lat), n * (n - 1))

\* LatencyMonitor._analyze_latencies; 'stdev' is kept squared
_analyze_latencies(latencies, test_name) ==
    IF latencies = <<>> THEN None
    ELSE LET sorted_lat == sorted(latencies) IN
         Some([test |-> test_name,
               count |-> Len(latencies),
               min |-> min(latencies),
               max |-> max(latencies),
               mean |-> Frac(sum(latencies), Len(latencies)),
               median |-> median(latencies),
               p95 |-> At(sorted_lat, P95Index(Len(sorted_lat))),
               p99 |-> At(sorted_lat, P99Index(Len(sorted_lat))),
               stdev |-> IF Len(latencies) > 1 THEN variance(latencies) ELSE Zero])

\* ---------------------------------------------------------------- history
\* calls: record_message and record_error calls made on the metrics object;
\* given: record_message calls that were handed a latency value.
\* attempts: calls of the ingestion sink begun; successes / faults: those that
\* returned / raised; conn_failures: workers whose connection could not be opened.
\* passes: passes of a sending loop begun; last_start: the clock reading at which
\* the latest pass passed the test of its loop; slept: what that pass slept (ms);
\* took: how long the sink call of the latest send_bar took (ms);
\* checks: memory queries made; check_faults: those of them that raised;
\* order: the positions in `symbols` of the symbols burst_test sent bars for.
NoHist == [calls |-> 0, given |-> 0, attempts |-> 0, successes |-> 0, faults |-> 0,
           conn_failures |-> 0, passes |-> 0, last_start |-> 0, slept |-> 0, took |-> 0,
           checks |-> 0, check_faults |-> 0, order |-> <<>>]

\* the history after a pass of a sending loop that began at t and sleeps interval
Pass(h, t, interval) ==
    [h EXCEPT !.passes = @ + 1, !.last_start = t, !.slept = interval]

\* what a get_stats call did: the value it returned (None when it raised), when it
\* was called, and the state of the object it was called on
Snapshot(m, t, h) ==
    Some([raised |-> get_stats_raises(m),
          result |-> IF get_stats_raises(m) THEN None ELSE get_stats(m, t),
          at |-> t, start_time |-> m.start_time,
          sent |-> m.messages_sent, samples |-> Len(m.latencies),
          errors |-> m.errors, latencies |-> m.latencies,
          calls |-> h.calls])

\* what an _analyze_latencies call did
Analysis(latencies, test_name) ==
    Some([raised |-> _analyze_latencies_raises(latencies),
          result |-> IF _analyze_latencies_raises(latencies) THEN None
                     ELSE _analyze_latencies(latencies, test_name),
          samples |-> Len(latencies)])

\* ---------------------------------------------------------------- StressTester
MsPerSecond == 1000
SecondsPerMinute == 60
ProgressEvery == 10      \* burst_test logs a snapshot every 10 rounds
ProgressSeconds == 10    \* sustained_load_test logs one in every 10th second
SpikeGapSeconds == 20    \* spike_test: the next spike starts 20 s after one ends
MemorySleep == 100       \* memory_leak_test: time.sleep(0.1)
CheckIntervalSeconds == 30
SuiteSleep == 5          \* run_all_tests: time.sleep(5) between two phases

\* a call of the sink that blocks for just over half a minute, and one that
\* blocks half as long
LongCall == CheckIntervalSeconds * MsPerSecond + 1
SlowCall == LongCall \div 2

\* how long a call of the ingestion sink takes (ms) and whether it returns or raises
SendDurations == {0, 1, LongCall}
SendOutcomes == [ok : BOOLEAN, dur : SendDurations]

\* a sink that needs many seconds for every call, and one whose calls take 1 ms
\* when they return and no time when they raise
SlowOutcomes == [ok : BOOLEAN, dur : {SlowCall, LongCall}]
SteadyOutcomes == {o \in SendOutcomes : o.dur = (IF o.ok THEN 1 ELSE 0)}

\* what a call of the sink can do in this run
Outcomes ==
    IF sink = "slow" THEN SlowOutcomes
    ELSE IF sink = "steady" THEN SteadyOutcomes
    ELSE SendOutcomes

\* interval = 1.0 / msg_per_second, in ms
Interval(rate) == MsPerSecond \div rate
Rates == {MsPerSecond, MsPerSecond \div 2}

\* kx.SyncQConnection(host, port): an open connection and the number of
\* '.ingestRealTimeData' calls made through it
SyncQConnection == [calls |-> 0]

\* the connection after conn('.ingestRealTimeData', ...)
after_call(c) == [c EXCEPT !.calls = @ + 1]

\* MarketDataGenerator(symbols) as the tester sees it: the tester only hands the
\* bars on to the sink, so the price state is recorded by the number of random-walk
\* updates applied to it; the prices themselves are specified with generate_bar
MarketDataGenerator == [generated |-> 0]

\* the generator after generate_bar: self.prices[symbol] = close
after_generate_bar(g) == [g EXCEPT !.generated = @ + 1]

NoLoc == [S |-> 0, M |-> 0, K |-> 0, delay_ms |-> 0, i |-> 0, j |-> 0,
          msg_per_second |-> 0, interval |-> 0, spike_interval |-> 0, spike_duration |-> 0,
          end_time |-> 0, last_spike |-> 0, last_check |-> 0,
          memory_samples |-> <<>>, spawned |-> 0]

\* a thread of the concurrent phase before it is started; conn and generator are
\* its local variables of those names; start, latency and loaded are locals kept
\* at 0 while they hold nothing that is read
NoWorker == [pc |-> "unstarted", conn |-> None, generator |-> None, i |-> 0, start |-> 0,
             latency |-> 0, loaded |-> 0]

\* run_all_tests before its first statement: tests holds stats1..stats5 under
\* the names of the phases that have returned, document what was written to
\* stress_test_results.json, written how often the file was written, raised the
\* phase an exception came out of
NoSuite == [tests |-> <<>>, document |-> None, written |-> 0, raised |-> None]

\* LatencyMonitor.__init__, and run_full_latency_analysis before its first
\* statement: latencies, failures and i are the locals of the running measurement,
\* results the dict of that name, document what was written to
\* latency_analysis.json, written how often; recorded: the samples each
\* measurement that has ended had appended
NoMonitor ==
    [ingest_conn |-> None, process_conn |-> None, latencies |-> <<>>, failures |-> 0,
     i |-> 0, start_time |-> 0, results |-> <<>>, recorded |-> <<>>, document |-> None,
     written |-> 0]

\* StressTester.__init__
Idle ==
    /\ conn = None
    /\ mode = "none"
    /\ phase = "none"
    /\ pc = "idle"
    /\ loc = NoLoc
    /\ result = None
    /\ workers = [w \in 1..MaxConnections |-> NoWorker]
    /\ generator = None
    /\ suite = NoSuite

\* no MarketDataGenerator is looked at on its own
GenIdle ==
    /\ initial_prices = None
    /\ prices = <<>>
    /\ bar = None

\* ---------------------------------------------------------------- the metrics object
\* One StressTestMetrics object used by one thread, its methods called in any order.
MInit ==
    /\ now = 0
    /\ metrics = StressTestMetrics
    /\ stats = None
    /\ prev = None
    /\ analysis = None
    /\ hist = NoHist
    /\ Idle
    /\ sink = "fast"
    /\ GenIdle
    /\ monitor = NoMonitor

\* time passes
Tick ==
    /\ now < MaxTime
    /\ now' = now + 1
    /\ UNCHANGED <<metrics, stats, prev, analysis, hist, testerVars, genVars, monitor>>

\* self.metrics.start_time = time.time(), as every phase does after construction
MStart ==
    /\ IsNone(metrics.start_time)
    /\ metrics' = [metrics EXCEPT !.start_time = Some(now)]
    /\ UNCHANGED <<now, stats, prev, analysis, hist, testerVars, genVars, monitor>>

MRecordMessage ==
    /\ hist.calls < MaxCalls
    /\ LockAvailable(metrics)
    /\ \E latency_ms \in {None} \cup {Some(l) : l \in 0..MaxLatency} :
        /\ metrics' = record_message(metrics, latency_ms)
        /\ hist' = [hist EXCEPT !.calls = @ + 1,
                                !.given = IF IsNone(latency_ms) THEN @ ELSE @ + 1]
    /\ UNCHANGED <<now, stats, prev, analysis, testerVars, genVars, monitor>>

MRecordError ==
    /\ hist.calls < MaxCalls
    /\ LockAvailable(metrics)
    /\ metrics' = record_error(metrics)
    /\ hist' = [hist EXCEPT !.calls = @ + 1]
    /\ UNCHANGED <<now, stats, prev, analysis, testerVars, genVars, monitor>>

MGetStats ==
    /\ LockAvailable(metrics)
    /\ stats' = Snapshot(metrics, now, hist)
    /\ prev' = stats
    /\ metrics' = after_get_stats(metrics)
    /\ UNCHANGED <<now, analysis, hist, testerVars, genVars, monitor>>

MNext == Tick \/ MStart \/ MRecordMessage \/ MRecordError \/ MGetStats

SpecMetrics == MInit /\ [][MNext]_vars

\* ---------------------------------------------------------------- the statistics alone
\* get_stats and _analyze_latencies applied to a latency list that a run has
\* collected: the values 1..n in ascending, descending and scattered order, and
\* every short list over 0..MaxLatency.
Ascending(n) == [i \in 1..n |-> i]
Descending(n) == [i \in 1..n |-> n + 1 - i]
Scattered(n) == [i \in 1..n |-> ((i * 37) % n) + 1]

ShortLists == UNION {[1..n -> 0..MaxLatency] : n \in 0..3}

StatsInputs ==
    {Ascending(n) : n \in 0..MaxSamples} \cup {Descending(n) : n \in 0..MaxSamples}
        \cup {Scattered(n) : n \in 0..MaxSamples} \cup ShortLists

SInit ==
    /\ now \in 0..1
    /\ \E lat \in StatsInputs :
          metrics = [StressTestMetrics EXCEPT !.messages_sent = Len(lat),
                                              !.latencies = lat,
                                              !.start_time = Some(0)]
    /\ stats = None
    /\ prev = None
    /\ analysis = None
    /\ hist = NoHist
    /\ Idle
    /\ sink = "fast"
    /\ GenIdle
    /\ monitor = NoMonitor

SGetStats ==
    /\ IsNone(stats)
    /\ stats' = Snapshot(metrics, now, hist)
    /\ metrics' = after_get_stats(metrics)
    /\ UNCHANGED <<now, prev, analysis, hist, testerVars, genVars, monitor>>

\* the names the measurements of LatencyMonitor pass as test_name
TestNames == {"Ingest Write", "Round-Trip"}

SAnalyze ==
    /\ IsNone(analysis)
    /\ \E test_name \in TestNames : analysis' = Analysis(metrics.latencies, test_name)
    /\ UNCHANGED <<now, metrics, stats, prev, hist, testerVars, genVars, monitor>>

SNext == SGetStats \/ SAnalyze

SpecStats == SInit /\ [][SNext]_vars

\* ---------------------------------------------------------------- the phases, one connection
\* send_bar: the sink call returns after out.dur ms (the latency measured around
\* it) or raises; a tester that never connected raises on the call itself.
\* counting the message before the call is made
send_bar_counted_first(m, c, out) ==
    IF ~IsNone(c) /\ out.ok THEN record_message(m, Some(out.dur))
    ELSE record_error(record_message(m, None))

send_bar(m, c, out) ==
    IF ~IsNone(c) /\ out.ok THEN record_message(m, Some(out.dur)) ELSE record_error(m)

\* self.conn after a send_bar: the sink is called once, whether the call returns
\* or raises
\* calling the sink a second time when the first call raised
send_bar_conn_retried(c, out) ==
    IF IsNone(c) THEN c
    ELSE IF out.ok THEN Some(after_call(Val(c)))
    ELSE Some(after_call(after_call(Val(c))))

send_bar_conn(c, out) == IF IsNone(c) THEN c ELSE Some(after_call(Val(c)))

\* the history after a send_bar
Sent(h, c, out) ==
    IF ~IsNone(c) /\ out.ok
    THEN [h EXCEPT !.attempts = @ + 1, !.successes = @ + 1, !.calls = @ + 1,
                   !.given = @ + 1, !.took = out.dur]
    ELSE [h EXCEPT !.attempts = @ + 1, !.faults = @ + 1, !.calls = @ + 1,
                   !.took = out.dur]

\* self.metrics = StressTestMetrics(); self.metrics.start_time = time.time()
\* going on with the object of the phase before
FreshMetricsKept(t) == [metrics EXCEPT !.start_time = Some(t)]

FreshMetrics(t) == [StressTestMetrics EXCEPT !.start_time = Some(t)]

PhaseModes == {"burst", "sustained", "spike", "memory"}

\* the arguments the phases are called with: run_all_tests passes fixed ones, of
\* SuiteScale messages and ms here; a phase run by name gets every small choice
\* against the steady sink a burst is also long enough for one or two progress logs
BurstArgs ==
    IF mode = "suite" THEN {[S |-> SuiteScale, M |-> SuiteScale, delay_ms |-> 0]}
    ELSE IF sink = "steady"
    THEN [S : 1..MaxSymbols,
          M : (1..MaxMessages) \cup {ProgressEvery, 2 * ProgressEvery},
          delay_ms : 0..1]
    ELSE [S : 1..MaxSymbols, M : 1..MaxMessages, delay_ms : 0..1]

SustainedArgs ==
    IF mode = "suite" THEN {[duration |-> SuiteScale, msg_per_second |-> MsPerSecond]}
    ELSE [duration : 1..MaxDuration, msg_per_second : Rates]

\* spike_test(symbols): normal_rate=5, spike_rate=100, spike_duration=10, total_duration=60
SpikeDefaults ==
    [normal_rate |-> 5, spike_rate |-> 100, spike_duration |-> 10 * MsPerSecond,
     total_duration |-> 60 * MsPerSecond]

SpikeArgs ==
    IF sink = "slow" THEN {SpikeDefaults}
    ELSE IF mode = "suite"
    THEN {[normal_rate |-> MsPerSecond \div 2, spike_rate |-> MsPerSecond,
           spike_duration |-> 1, total_duration |-> SuiteScale]}
    ELSE [normal_rate : Rates, spike_rate : Rates, spike_duration : 0..1,
          total_duration : 1..MaxDuration]

ConcurrentArgs ==
    IF mode = "suite" THEN {[K |-> MaxConnections, M |-> SuiteScale]}
    ELSE [K : 1..MaxConnections, M : 1..MaxMessages]

\* the length of memory_leak_test in sleeps of the loop: against the slow sink
\* duration_minutes = 1
MemoryArgs ==
    IF sink = "slow" THEN {(SecondsPerMinute * MsPerSecond) \div MemorySleep}
    ELSE IF mode = "suite" THEN {SuiteScale}
    ELSE 1..MaxDuration

\* the script started with a phase name as its argument
PInit ==
    /\ now = 0
    /\ metrics = StressTestMetrics
    /\ stats = None
    /\ prev = None
    /\ analysis = None
    /\ hist = NoHist
    /\ conn = None
    /\ mode \in PhaseModes
    /\ phase = "none"
    /\ pc = "main"
    /\ loc = NoLoc
    /\ result = None
    /\ workers = [w \in 1..MaxConnections |-> NoWorker]
    /\ generator = None
    /\ suite = NoSuite
    /\ sink = "fast"
    /\ GenIdle
    /\ monitor = NoMonitor

\* tester.connect(); the named phase is run only when it returns True
Connect ==
    /\ pc = "main"
    /\ mode # "suite"
    /\ \E ok \in BOOLEAN :
          IF ok THEN conn' = Some(SyncQConnection) /\ pc' = "dispatch" /\ phase' = mode
          ELSE conn' = None /\ pc' = "exit" /\ phase' = phase
    /\ UNCHANGED <<now, metrics, stats, prev, analysis, hist, mode, loc, result, workers,
                   generator, suite, genVars, monitor>>

\* burst_test up to its loops
BurstStart ==
    /\ pc = "dispatch" /\ phase = "burst"
    /\ \E a \in BurstArgs :
          loc' = [NoLoc EXCEPT !.S = a.S, !.M = a.M, !.delay_ms = a.delay_ms]
    /\ generator' = Some(MarketDataGenerator)
    /\ metrics' = FreshMetrics(now)
    /\ hist' = NoHist
    /\ pc' = "burst"
    /\ UNCHANGED <<now, stats, prev, analysis, conn, mode, phase, result, workers, suite,
                   genVars, monitor>>

\* `for symbol in symbols` inside `for i in range(messages_per_symbol)`: the
\* position in `symbols` of the symbol of the running pass
\* taking the symbol by the number of the round
BurstSymbolOfRound(l) == l.i

BurstSymbol(l) == l.j

\* one pass of the inner loop of burst_test: symbol j of round i, and at the end
\* of every tenth round the progress snapshot
BurstSend ==
    /\ pc = "burst" /\ loc.i < loc.M
    /\ \E out \in Outcomes :
          LET slept == IF loc.delay_ms > 0 THEN loc.delay_ms ELSE 0
              m1 == send_bar(metrics, conn, out)
              h1 == [Sent(Pass(hist, now, slept), conn, out)
                        EXCEPT !.order = Append(@, BurstSymbol(loc))]
              t1 == now + out.dur + slept
              last == loc.j + 1 = loc.S
              progress == last /\ (loc.i + 1) % ProgressEvery = 0
          IN  /\ now' = t1
              /\ hist' = h1
              /\ conn' = send_bar_conn(conn, out)
              /\ metrics' = IF progress THEN after_get_stats(m1) ELSE m1
              /\ stats' = IF progress THEN Snapshot(m1, t1, h1) ELSE stats
              /\ prev' = IF progress THEN stats ELSE prev
              /\ loc' = IF last THEN [loc EXCEPT !.i = @ + 1, !.j = 0]
                        ELSE [loc EXCEPT !.j = @ + 1]
    /\ generator' = Some(after_generate_bar(Val(generator)))
    /\ UNCHANGED <<analysis, mode, phase, pc, result, workers, suite, genVars, monitor>>

\* return self.metrics.get_stats() of a single-connection phase
ReturnStats ==
    /\ stats' = Snapshot(metrics, now, hist)
    /\ prev' = stats
    /\ result' = get_stats(metrics, now)
    /\ metrics' = after_get_stats(metrics)
    /\ pc' = "returned"
    /\ UNCHANGED <<now, analysis, hist, conn, mode, phase, loc, workers, generator, suite,
                   genVars, monitor>>

BurstReturn ==
    /\ pc = "burst" /\ loc.i >= loc.M
    /\ ReturnStats

\* the test of the loop of a timed phase: while time.time() < end_time
\* letting a pass begin at the end time itself
BeforeEndOrAt(l, t) == t <= l.end_time

BeforeEnd(l, t) == t < l.end_time

\* time.sleep(interval) of sustained_load_test after a send whose sink call took
\* `took` ms: how long the pass sleeps
\* sleeping only what the send has left of the interval
sustained_sleep_remaining(interval, took) == IF took < interval THEN interval - took ELSE 0

sustained_sleep(interval, took) == interval

\* sustained_load_test up to its loop
SustainedStart ==
    /\ pc = "dispatch" /\ phase = "sustained"
    /\ \E a \in SustainedArgs :
          loc' = [NoLoc EXCEPT !.msg_per_second = a.msg_per_second,
                               !.interval = Interval(a.msg_per_second),
                               !.end_time = now + a.duration]
    /\ generator' = Some(MarketDataGenerator)
    /\ metrics' = FreshMetrics(now)
    /\ hist' = NoHist
    /\ pc' = "sustained"
    /\ UNCHANGED <<now, stats, prev, analysis, conn, mode, phase, result, workers, suite,
                   genVars, monitor>>

\* one pass of the loop of sustained_load_test
SustainedSend ==
    /\ pc = "sustained" /\ BeforeEnd(loc, now)
    /\ \E out \in Outcomes :
          LET slept == sustained_sleep(loc.interval, out.dur)
              m1 == send_bar(metrics, conn, out)
              h1 == Sent(Pass(hist, now, slept), conn, out)
              t1 == now + out.dur + slept
              progress ==
                  ((t1 - Val(metrics.start_time)) \div MsPerSecond) % ProgressSeconds = 0
          IN  /\ now' = t1
              /\ hist' = h1
              /\ conn' = send_bar_conn(conn, out)
              /\ metrics' = IF progress THEN after_get_stats(m1) ELSE m1
              /\ stats' = IF progress THEN Snapshot(m1, t1, h1) ELSE stats
              /\ prev' = IF progress THEN stats ELSE prev
    /\ generator' = Some(after_generate_bar(Val(generator)))
    /\ UNCHANGED <<analysis, mode, phase, pc, loc, result, workers, suite, genVars, monitor>>

SustainedReturn ==
    /\ pc = "sustained" /\ ~BeforeEnd(loc, now)
    /\ ReturnStats

\* spike_test up to its loop
SpikeStart ==
    /\ pc = "dispatch" /\ phase = "spike"
    /\ \E a \in SpikeArgs :
          loc' = [NoLoc EXCEPT !.interval = Interval(a.normal_rate),
                               !.spike_interval = Interval(a.spike_rate),
                               !.spike_duration = a.spike_duration,
                               !.end_time = now + a.total_duration,
                               !.last_spike = now]
    /\ generator' = Some(MarketDataGenerator)
    /\ metrics' = FreshMetrics(now)
    /\ hist' = NoHist
    /\ pc' = "spike"
    /\ UNCHANGED <<now, stats, prev, analysis, conn, mode, phase, result, workers, suite,
                   genVars, monitor>>

\* whether a pass that starts at t is paced at spike_rate
InSpike(l, t) == t - l.last_spike < l.spike_duration

\* last_spike after the pass that starts at t
NextLastSpike(l, t) ==
    IF ~InSpike(l, t) /\ t - l.last_spike > l.spike_duration + SpikeGapSeconds * MsPerSecond
    THEN t ELSE l.last_spike

\* one pass of the loop of spike_test
SpikeSend ==
    /\ pc = "spike" /\ BeforeEnd(loc, now)
    /\ \E out \in Outcomes :
          LET interval == IF InSpike(loc, now) THEN loc.spike_interval ELSE loc.interval
          IN  /\ now' = now + out.dur + interval
              /\ hist' = Sent(Pass(hist, now, interval), conn, out)
              /\ conn' = send_bar_conn(conn, out)
              /\ metrics' = send_bar(metrics, conn, out)
              /\ loc' = [loc EXCEPT !.last_spike = NextLastSpike(loc, now)]
    /\ generator' = Some(after_generate_bar(Val(generator)))
    /\ UNCHANGED <<stats, prev, analysis, mode, phase, pc, result, workers, suite, genVars,
                   monitor>>

SpikeReturn ==
    /\ pc = "spike" /\ ~BeforeEnd(loc, now)
    /\ ReturnStats

\* memory_leak_test up to its loop; the length is duration_minutes * 60 s
MemoryStart ==
    /\ pc = "dispatch" /\ phase = "memory"
    /\ \E n \in MemoryArgs :
          loc' = [NoLoc EXCEPT !.end_time = now + n * MemorySleep, !.last_check = now]
    /\ generator' = Some(MarketDataGenerator)
    /\ metrics' = FreshMetrics(now)
    /\ hist' = NoHist
    /\ pc' = "memory"
    /\ UNCHANGED <<now, stats, prev, analysis, conn, mode, phase, result, workers, suite,
                   genVars, monitor>>

\* the periodic memory check at clock reading t: the query '.Q.w[]' returns
\* (sampled) or raises; the locals l and the metrics object m afterwards
\* counting a query that raised as an error of the phase
memory_check_counted(l, m, t, sampled) ==
    [loc |-> [l EXCEPT !.last_check = t,
                       !.memory_samples =
                           IF sampled THEN Append(@, [time |-> t - Val(m.start_time)])
                           ELSE @],
     metrics |-> IF sampled THEN m ELSE record_error(m)]

memory_check(l, m, t, sampled) ==
    [loc |-> [l EXCEPT !.last_check = t,
                       !.memory_samples =
                           IF sampled THEN Append(@, [time |-> t - Val(m.start_time)])
                           ELSE @],
     metrics |-> m]

\* the history after a memory check
Checked(h, sampled) ==
    IF sampled THEN [h EXCEPT !.checks = @ + 1]
    ELSE [h EXCEPT !.checks = @ + 1, !.check_faults = @ + 1]

\* one pass of the loop of memory_leak_test: the send, the sleep and, when more
\* than check_interval has passed, the memory query, which returns or raises
MemorySend ==
    /\ pc = "memory" /\ BeforeEnd(loc, now)
    /\ \E out \in Outcomes, sampled \in BOOLEAN :
          LET t1 == now + out.dur + MemorySleep
              due == t1 - loc.last_check > CheckIntervalSeconds * MsPerSecond
              m1 == send_bar(metrics, conn, out)
              h1 == Sent(Pass(hist, now, MemorySleep), conn, out)
              checked == memory_check(loc, m1, t1, sampled)
          IN  /\ now' = t1
              /\ hist' = IF due THEN Checked(h1, sampled) ELSE h1
              /\ conn' = send_bar_conn(conn, out)
              /\ metrics' = IF due THEN checked.metrics ELSE m1
              /\ loc' = IF due THEN checked.loc ELSE loc
    /\ generator' = Some(after_generate_bar(Val(generator)))
    /\ UNCHANGED <<stats, prev, analysis, mode, phase, pc, result, workers, suite, genVars,
                   monitor>>

\* stats = self.metrics.get_stats(); stats['memory_samples'] = memory_samples
WithSamples(r, samples) ==
    [f \in DOMAIN r \cup {"memory_samples"} |->
        IF f = "memory_samples" THEN samples ELSE r[f]]

MemoryReturn ==
    /\ pc = "memory" /\ ~BeforeEnd(loc, now)
    /\ stats' = Snapshot(metrics, now, hist)
    /\ prev' = stats
    /\ result' = Some(WithSamples(Val(get_stats(metrics, now)), loc.memory_samples))
    /\ metrics' = after_get_stats(metrics)
    /\ pc' = "returned"
    /\ UNCHANGED <<now, analysis, hist, conn, mode, phase, loc, workers, generator, suite,
                   genVars, monitor>>

\* tester.print_results(test_type.upper(), stats), the last statement of the script
PrintResults ==
    /\ pc = "returned"
    /\ mode # "suite"
    /\ pc' = "exit"
    /\ UNCHANGED <<now, metrics, stats, prev, analysis, hist, conn, mode, phase, loc,
                   result, workers, generator, suite, genVars, monitor>>

PNext ==
    \/ Connect
    \/ BurstStart \/ BurstSend \/ BurstReturn
    \/ SustainedStart \/ SustainedSend \/ SustainedReturn
    \/ SpikeStart \/ SpikeSend \/ SpikeReturn
    \/ MemoryStart \/ MemorySend \/ MemoryReturn
    \/ PrintResults

SpecPhase == PInit /\ [][PNext]_vars

\* ---------------------------------------------------------------- burst_test on a steady sink
\* the script started with the argument "burst", against a sink whose calls
\* take 1 ms when they return and no time when they raise
BurstInit ==
    /\ now = 0
    /\ metrics = StressTestMetrics
    /\ stats = None
    /\ prev = None
    /\ analysis = None
    /\ hist = NoHist
    /\ conn = None
    /\ mode = "burst"
    /\ phase = "none"
    /\ pc = "main"
    /\ loc = NoLoc
    /\ result = None
    /\ workers = [w \in 1..MaxConnections |-> NoWorker]
    /\ generator = None
    /\ suite = NoSuite
    /\ sink = "steady"
    /\ GenIdle
    /\ monitor = NoMonitor

BurstNext == Connect \/ BurstStart \/ BurstSend \/ BurstReturn \/ PrintResults

SpecBurst == BurstInit /\ [][BurstNext]_vars

\* ---------------------------------------------------------------- the concurrent phase
\* the script started with the argument "concurrent"
CInit ==
    /\ now = 0
    /\ metrics = StressTestMetrics
    /\ stats = None
    /\ prev = None
    /\ analysis = None
    /\ hist = NoHist
    /\ conn = None
    /\ mode = "concurrent"
    /\ phase = "none"
    /\ pc = "main"
    /\ loc = NoLoc
    /\ result = None
    /\ workers = [w \in 1..MaxConnections |-> NoWorker]
    /\ generator = None
    /\ suite = NoSuite
    /\ sink = "fast"
    /\ GenIdle
    /\ monitor = NoMonitor

\* concurrent_connections_test up to the loop that starts the threads
ConcurrentStart ==
    /\ pc = "dispatch" /\ phase = "concurrent"
    /\ \E a \in ConcurrentArgs :
          loc' = [NoLoc EXCEPT !.K = a.K, !.M = a.M]
    /\ metrics' = FreshMetrics(now)
    /\ hist' = NoHist
    /\ workers' = [w \in 1..MaxConnections |-> NoWorker]
    /\ pc' = "spawn"
    /\ UNCHANGED <<now, stats, prev, analysis, conn, mode, phase, result, generator, suite,
                   genVars, monitor>>

\* t = threading.Thread(target=worker, args=(i,)); t.start()
Spawn ==
    /\ pc = "spawn" /\ loc.spawned < loc.K
    /\ workers' = [workers EXCEPT ![loc.spawned + 1].pc = "connect"]
    /\ loc' = [loc EXCEPT !.spawned = @ + 1]
    /\ UNCHANGED <<now, metrics, stats, prev, analysis, hist, conn, mode, phase, pc, result,
                   generator, suite, genVars, monitor>>

\* time passes while the threads run
ConcurrentTick ==
    /\ pc = "spawn"
    /\ now - Val(metrics.start_time) < MaxConcTime
    /\ now' = now + 1
    /\ UNCHANGED <<metrics, stats, prev, analysis, hist, testerVars, genVars, monitor>>

\* worker: conn = kx.SyncQConnection(...); generator = MarketDataGenerator(symbols)
WConnect(w) ==
    /\ workers[w].pc = "connect"
    /\ \E ok \in BOOLEAN :
          IF ok
          THEN /\ workers' = [workers EXCEPT ![w].conn = Some(SyncQConnection),
                                             ![w].generator = Some(MarketDataGenerator),
                                             ![w].pc = "loop"]
               /\ hist' = hist
          ELSE /\ workers' = [workers EXCEPT ![w].pc = "except"]
               /\ hist' = [hist EXCEPT !.conn_failures = @ + 1]
    /\ UNCHANGED <<now, metrics, stats, prev, analysis, conn, mode, phase, pc, loc, result,
                   generator, suite, genVars, monitor>>

\* worker w, one pass of its loop up to the call of the sink, begun at t: the
\* threads ws, self.conn c and self.generator g of the tester afterwards. The bar
\* comes from the generator of the thread and is sent through its connection.
\* taking the bar from self.generator and sending it through self.conn
worker_call_shared(ws, c, g, w, t) ==
    [workers |-> [ws EXCEPT ![w].start = t, ![w].pc = "call"],
     conn |-> IF IsNone(c) THEN c ELSE Some(after_call(Val(c))),
     generator |-> IF IsNone(g) THEN g ELSE Some(after_generate_bar(Val(g)))]

worker_call(ws, c, g, w, t) ==
    [workers |-> [ws EXCEPT ![w].generator = Some(after_generate_bar(Val(@))),
                            ![w].conn = Some(after_call(Val(@))),
                            ![w].start = t, ![w].pc = "call"],
     conn |-> c,
     generator |-> g]

\* worker: the next pass of the loop, up to the call of the sink: the bar is
\* generated and start = time.time() is read
WCallStart(w) ==
    /\ workers[w].pc = "loop" /\ workers[w].i < loc.M
    /\ LET after == worker_call(workers, conn, generator, w, now)
       IN  /\ workers' = after.workers
           /\ conn' = after.conn
           /\ generator' = after.generator
    /\ hist' = [hist EXCEPT !.attempts = @ + 1, !.passes = @ + 1]
    /\ UNCHANGED <<now, metrics, stats, prev, analysis, mode, phase, pc, loc, result, suite,
                   genVars, monitor>>

\* worker: the call of the sink returns, and the latency is measured, or raises
\* passing over a call that raised and going on with the loop
WCallReturnPassingOver(w) ==
    /\ workers[w].pc = "call"
    /\ \E ok \in BOOLEAN :
          IF ok
          THEN /\ workers' = [workers EXCEPT ![w].latency = now - workers[w].start,
                                             ![w].start = 0,
                                             ![w].pc = "record_message"]
               /\ hist' = [hist EXCEPT !.successes = @ + 1]
          ELSE /\ workers' = [workers EXCEPT ![w].start = 0, ![w].i = @ + 1,
                                             ![w].pc = "loop"]
               /\ hist' = [hist EXCEPT !.faults = @ + 1]
    /\ UNCHANGED <<now, metrics, stats, prev, analysis, conn, mode, phase, pc, loc, result,
                   generator, suite, genVars, monitor>>

WCallReturn(w) ==
    /\ workers[w].pc = "call"
    /\ \E ok \in BOOLEAN :
          IF ok
          THEN /\ workers' = [workers EXCEPT ![w].latency = now - workers[w].start,
                                             ![w].start = 0,
                                             ![w].pc = "record_message"]
               /\ hist' = [hist EXCEPT !.successes = @ + 1]
          ELSE /\ workers' = [workers EXCEPT ![w].start = 0, ![w].pc = "except"]
               /\ hist' = [hist EXCEPT !.faults = @ + 1]
    /\ UNCHANGED <<now, metrics, stats, prev, analysis, conn, mode, phase, pc, loc, result,
                   generator, suite, genVars, monitor>>

\* worker, in record_message: the lock is taken and self.messages_sent is read
WRecordMessageEnter(w) ==
    /\ workers[w].pc = "record_message"
    /\ LockAvailable(metrics)
    /\ metrics' = Acquire(metrics, w)
    /\ workers' = [workers EXCEPT ![w].loaded = metrics.messages_sent,
                                  ![w].pc = "record_message_store"]
    /\ UNCHANGED <<now, stats, prev, analysis, hist, conn, mode, phase, pc, loc, result,
                   generator, suite, genVars, monitor>>

\* worker, in record_message: the sum is stored, the latency appended, the lock
\* released; the loop goes on
WRecordMessageStore(w) ==
    /\ workers[w].pc = "record_message_store"
    /\ metrics' = record_message_store(metrics, workers[w].loaded, Some(workers[w].latency))
    /\ workers' = [workers EXCEPT ![w].i = @ + 1, ![w].latency = 0, ![w].loaded = 0,
                                  ![w].pc = "loop"]
    /\ hist' = [hist EXCEPT !.calls = @ + 1, !.given = @ + 1]
    /\ UNCHANGED <<now, stats, prev, analysis, conn, mode, phase, pc, loc, result,
                   generator, suite, genVars, monitor>>

\* worker: the loop is over, "Worker completed" is logged and the thread ends
WCompleted(w) ==
    /\ workers[w].pc = "loop" /\ workers[w].i >= loc.M
    /\ workers' = [workers EXCEPT ![w].pc = "done"]
    /\ UNCHANGED <<now, metrics, stats, prev, analysis, hist, conn, mode, phase, pc, loc,
                   result, generator, suite, genVars, monitor>>

\* worker, in the except clause, in record_error: the lock is taken and
\* self.errors is read
WRecordErrorEnter(w) ==
    /\ workers[w].pc = "except"
    /\ LockAvailable(metrics)
    /\ metrics' = Acquire(metrics, w)
    /\ workers' = [workers EXCEPT ![w].loaded = metrics.errors,
                                  ![w].pc = "record_error_store"]
    /\ UNCHANGED <<now, stats, prev, analysis, hist, conn, mode, phase, pc, loc, result,
                   generator, suite, genVars, monitor>>

\* worker, in record_error: the sum is stored, the lock released; the thread ends
WRecordErrorStore(w) ==
    /\ workers[w].pc = "record_error_store"
    /\ metrics' = record_error_store(metrics, workers[w].loaded)
    /\ workers' = [workers EXCEPT ![w].loaded = 0, ![w].pc = "done"]
    /\ hist' = [hist EXCEPT !.calls = @ + 1]
    /\ UNCHANGED <<now, stats, prev, analysis, conn, mode, phase, pc, loc, result,
                   generator, suite, genVars, monitor>>

\* every thread that was started has ended
\* not waiting for the threads
AllDoneUnjoined == TRUE

AllDone == \A w \in 1..loc.K : workers[w].pc = "done"

\* for t in threads: t.join(); return self.metrics.get_stats()
JoinAndReturn ==
    /\ pc = "spawn" /\ loc.spawned = loc.K
    /\ AllDone
    /\ LockAvailable(metrics)
    /\ ReturnStats

Worker(w) ==
    \/ WConnect(w) \/ WCallStart(w) \/ WCallReturn(w)
    \/ WRecordMessageEnter(w) \/ WRecordMessageStore(w) \/ WCompleted(w)
    \/ WRecordErrorEnter(w) \/ WRecordErrorStore(w)

CNext ==
    \/ Connect
    \/ ConcurrentStart \/ Spawn \/ ConcurrentTick
    \/ \E w \in 1..MaxConnections : Worker(w)
    \/ JoinAndReturn
    \/ PrintResults

SpecConcurrent == CInit /\ [][CNext]_vars

\* the steps of the main thread
MainThread == Connect \/ ConcurrentStart \/ Spawn \/ JoinAndReturn \/ PrintResults

\* the concurrent phase on a clock that stands still, with the scheduling of the
\* threads: a thread that can take a step takes one, and so does the main
\* thread; a call of the sink that has begun returns or raises
CFairNext == MainThread \/ \E w \in 1..MaxConnections : Worker(w)

SpecConcurrentFair ==
    /\ CInit
    /\ [][CFairNext]_vars
    /\ WF_vars(MainThread)
    /\ \A w \in 1..MaxConnections : WF_vars(Worker(w))

\* a step of worker w other than the return of a call of the sink
WorkerOutsideCall(w) == Worker(w) /\ workers[w].pc # "call"

\* the concurrent phase with calls of the sink that may never return: a thread
\* that can take a step outside such a call takes one, and so does the main thread
SpecConcurrentBlocking ==
    /\ CInit
    /\ [][CFairNext]_vars
    /\ WF_vars(MainThread)
    /\ \A w \in 1..MaxConnections : WF_vars(WorkerOutsideCall(w))

\* ---------------------------------------------------------------- run_all_tests
\* the order in which run_all_tests calls the phases
\* the spike phase before the sustained one
NextPhaseSwapped(p) ==
    CASE p = "burst" -> "spike"
      [] p = "spike" -> "sustained"
      [] p = "sustained" -> "concurrent"
      [] p = "concurrent" -> "memory"
      [] OTHER -> "none"

NextPhase(p) ==
    CASE p = "burst" -> "sustained"
      [] p = "sustained" -> "spike"
      [] p = "spike" -> "concurrent"
      [] p = "concurrent" -> "memory"
      [] OTHER -> "none"

\* the key of a phase in the 'tests' object of the file
TestKey(p) ==
    CASE p = "burst" -> "burst_load"
      [] p = "sustained" -> "sustained_load"
      [] p = "memory" -> "memory_leak"
      [] OTHER -> p

\* results = {'timestamp': ..., 'tests': {...}}
Document(tests, t) ==
    [timestamp |-> t,
     tests |-> [k \in {TestKey(p) : p \in DOMAIN tests} |->
                   tests[CHOOSE p \in DOMAIN tests : TestKey(p) = k]]]

\* the script started without an argument
SuiteInit ==
    /\ now = 0
    /\ metrics = StressTestMetrics
    /\ stats = None
    /\ prev = None
    /\ analysis = None
    /\ hist = NoHist
    /\ conn = None
    /\ mode = "suite"
    /\ phase = "none"
    /\ pc = "main"
    /\ loc = NoLoc
    /\ result = None
    /\ workers = [w \in 1..MaxConnections |-> NoWorker]
    /\ generator = None
    /\ suite = NoSuite
    /\ sink = "steady"
    /\ GenIdle
    /\ monitor = NoMonitor

\* if not self.connect(): return
SuiteConnect ==
    /\ pc = "main"
    /\ mode = "suite"
    /\ \E ok \in BOOLEAN :
          IF ok THEN conn' = Some(SyncQConnection) /\ pc' = "dispatch" /\ phase' = "burst"
          ELSE conn' = None /\ pc' = "exit" /\ phase' = phase
    /\ UNCHANGED <<now, metrics, stats, prev, analysis, hist, mode, loc, result, workers,
                   generator, suite, genVars, monitor>>

\* statsN = <the phase>; self.print_results(...); time.sleep(5), and on to the
\* next phase
SuiteStep ==
    /\ pc = "returned"
    /\ mode = "suite"
    /\ phase # "memory"
    /\ suite' = [suite EXCEPT !.tests = (phase :> result) @@ @]
    /\ now' = now + SuiteSleep * MsPerSecond
    /\ phase' = NextPhase(phase)
    /\ pc' = "dispatch"
    /\ result' = None
    /\ UNCHANGED <<metrics, stats, prev, analysis, hist, conn, mode, loc, workers, generator,
                   genVars, monitor>>

\* stats5 = self.memory_leak_test(...); self.print_results(...); the results are
\* put together and written to stress_test_results.json
SuiteSave ==
    /\ pc = "returned"
    /\ mode = "suite"
    /\ phase = "memory"
    /\ LET tests == (phase :> result) @@ suite.tests
       IN  suite' = [suite EXCEPT !.tests = tests,
                                  !.document = Some(Document(tests, now)),
                                  !.written = @ + 1]
    /\ pc' = "exit"
    /\ UNCHANGED <<now, metrics, stats, prev, analysis, hist, conn, mode, phase, loc, result,
                   workers, generator, genVars, monitor>>

\* where the main thread is while a phase runs
PhasePcs == {"burst", "sustained", "spike", "spawn", "memory"}

\* an exception comes out of the running phase: a KeyboardInterrupt, which the
\* `except Exception` clauses of the phases do not catch, or what Thread.start
\* raises when no thread can be started. Neither run_all_tests nor the script
\* has a handler, so the script ends there.
PhaseRaises ==
    /\ mode = "suite"
    /\ pc \in PhasePcs
    /\ pc' = "raised"
    /\ suite' = [suite EXCEPT !.raised = Some(phase)]
    /\ UNCHANGED <<now, metrics, stats, prev, analysis, hist, conn, mode, phase, loc, result,
                   workers, generator, genVars, monitor>>

SuiteNext ==
    \/ SuiteConnect
    \/ BurstStart \/ BurstSend \/ BurstReturn
    \/ SustainedStart \/ SustainedSend \/ SustainedReturn
    \/ SpikeStart \/ SpikeSend \/ SpikeReturn
    \/ ConcurrentStart \/ Spawn
    \/ \E w \in 1..MaxConnections : Worker(w)
    \/ JoinAndReturn
    \/ MemoryStart \/ MemorySend \/ MemoryReturn
    \/ SuiteStep \/ SuiteSave
    \/ PhaseRaises

SpecSuite == SuiteInit /\ [][SuiteNext]_vars

\* ---------------------------------------------------------------- spike_test on a slow sink
\* the script started with the argument "spike", which runs spike_test with its
\* default arguments, against a sink that needs many seconds for every call
SpikeInit ==
    /\ now = 0
    /\ metrics = StressTestMetrics
    /\ stats = None
    /\ prev = None
    /\ analysis = None
    /\ hist = NoHist
    /\ conn = None
    /\ mode = "spike"
    /\ phase = "none"
    /\ pc = "main"
    /\ loc = NoLoc
    /\ result = None
    /\ workers = [w \in 1..MaxConnections |-> NoWorker]
    /\ generator = None
    /\ suite = NoSuite
    /\ sink = "slow"
    /\ GenIdle
    /\ monitor = NoMonitor

SpikeNext == Connect \/ SpikeStart \/ SpikeSend \/ SpikeReturn \/ PrintResults

SpecSpike == SpikeInit /\ [][SpikeNext]_vars

\* ---------------------------------------------------------------- memory_leak_test, slow sink
\* the script started with the argument "memory", the phase lasting a minute,
\* against a sink that needs many seconds for every call
MemoryInit ==
    /\ now = 0
    /\ metrics = StressTestMetrics
    /\ stats = None
    /\ prev = None
    /\ analysis = None
    /\ hist = NoHist
    /\ conn = None
    /\ mode = "memory"
    /\ phase = "none"
    /\ pc = "main"
    /\ loc = NoLoc
    /\ result = None
    /\ workers = [w \in 1..MaxConnections |-> NoWorker]
    /\ generator = None
    /\ suite = NoSuite
    /\ sink = "slow"
    /\ GenIdle
    /\ monitor = NoMonitor

MemoryNext == Connect \/ MemoryStart \/ MemorySend \/ MemoryReturn \/ PrintResults

SpecMemory == MemoryInit /\ [][MemoryNext]_vars

\* ---------------------------------------------------------------- MarketDataGenerator
\* Prices are counted in tenths of a cent, so that a price has one more digit
\* than round(price, 2) keeps; a product or quotient is rounded to the nearest
\* unit, ties to even, as float arithmetic rounds to the nearest float.
PriceUnit == 10 * 100

\* n / d rounded to the nearest integer, ties to even
Nearest(n, d) ==
    LET q == n \div d
        r == n % d
    IN  IF 2 * r < d THEN q
        ELSE IF 2 * r > d THEN q + 1
        ELSE IF q % 2 = 0 THEN q ELSE q + 1

\* x * (1 + permille / 1000)
Scaled(x, permille) == Nearest(x * (1000 + permille), 1000)

\* round(x, 2), in cents
round(x) == Nearest(x, PriceUnit \div 100)

\* high = close * (1 + abs(random.gauss(0, 0.001))), the draw being up / 1000
High(close, up) == Scaled(close, up)

\* low = close * (1 - abs(random.gauss(0, 0.001))), the draw being down / 1000
\* adding the draw instead of subtracting it
LowInflated(close, down) == Scaled(close, down)

Low(close, down) == Scaled(close, 0 - down)

\* random.uniform(low, high) = low + (high - low) * random.random(), the draw
\* being halves / 2
Uniform(low, high, halves) == low + Nearest((high - low) * halves, 2)

\* what random.gauss and random.random give in one generate_bar: change_pct =
\* change / 1000, and the draws of High, Low and Uniform
Draws ==
    [change : {0 - MaxChange, 0, MaxChange}, up : {0, MaxOffset}, down : {0, MaxOffset},
     halves : 0..2]

\* generate_bar(symbol) on the prices p with the draws d: the bar returned (its
\* prices in cents; 'time' and 'volume' are drawn apart from the prices and left
\* out) and self.prices afterwards
generate_bar(p, symbol, d) ==
    LET close == Scaled(p[symbol], d.change)
        high == High(close, d.up)
        low == Low(close, d.down)
        open_price == Uniform(low, high, d.halves)
    IN  [bar |-> [symbol |-> symbol, open |-> round(open_price), high |-> round(high),
                  low |-> round(low), close |-> round(close)],
         prices |-> [p EXCEPT ![symbol] = close]]

GenSymbols == {"AAPL", "TSLA"}

\* random.uniform(100, 500): both ends and a price between them
RandomPrices == {100 * PriceUnit, 317 * PriceUnit + 299, 500 * PriceUnit}

\* prices a caller passes as initial_prices: -100, 0, 0.004 and 250.005
SuppliedPrices == {0 - 100 * PriceUnit, 0, 4, 250 * PriceUnit + 5}

\* MarketDataGenerator(symbols, initial_prices):
\* self.prices = initial_prices or {sym: random.uniform(100, 500) for sym in symbols}
GenInit ==
    /\ now = 0
    /\ metrics = StressTestMetrics
    /\ stats = None
    /\ prev = None
    /\ analysis = None
    /\ hist = NoHist
    /\ Idle
    /\ sink = "fast"
    /\ initial_prices \in {None} \cup {Some(p) : p \in [GenSymbols -> SuppliedPrices]}
    /\ prices \in [GenSymbols -> RandomPrices \cup SuppliedPrices]
    /\ IF IsNone(initial_prices) THEN prices \in [GenSymbols -> RandomPrices]
       ELSE prices = Val(initial_prices)
    /\ bar = None
    /\ monitor = NoMonitor

GenerateBar ==
    /\ hist.passes < MaxBars
    /\ \E symbol \in GenSymbols, d \in Draws :
          LET g == generate_bar(prices, symbol, d)
          IN  /\ bar' = Some(g.bar)
              /\ prices' = g.prices
    /\ hist' = [hist EXCEPT !.passes = @ + 1]
    /\ UNCHANGED <<now, metrics, stats, prev, analysis, testerVars, sink, initial_prices,
                   monitor>>

GenNext == GenerateBar

SpecGenerator == GenInit /\ [][GenNext]_vars

\* ---------------------------------------------------------------- LatencyMonitor
IngestSleep == 10        \* measure_ingest_latency, measure_query_latency: time.sleep(0.01)
RoundTripWait == 100     \* measure_round_trip_latency: time.sleep(0.1) before reading back
RoundTripSleep == 500    \* measure_round_trip_latency: time.sleep(0.5)
CoolDown == 2            \* run_full_latency_analysis: time.sleep(2) between measurements

\* the order in which run_full_latency_analysis runs its measurements, by the
\* keys of results
LatencyOrder ==
    <<"ingest_write", "query_simple", "query_aggregation", "query_complex", "processing",
      "round_trip">>

LatencyKeys == {LatencyOrder[k] : k \in 1..Len(LatencyOrder)}
QueryKeys == {"query_simple", "query_aggregation", "query_complex"}

NextMeasurement(key) ==
    LET k == CHOOSE n \in 1..Len(LatencyOrder) : LatencyOrder[n] = key
    IN  IF k < Len(LatencyOrder) THEN LatencyOrder[k + 1] ELSE "none"

\* the test_name a measurement hands to _analyze_latencies
TestName(key) ==
    CASE key = "ingest_write" -> "Ingest Write"
      [] key = "query_simple" -> "Query (simple)"
      [] key = "query_aggregation" -> "Query (aggregation)"
      [] key = "query_complex" -> "Query (complex)"
      [] OTHER -> "Round-Trip"

\* the tables 'select last time by sym' can return: the latest time of every
\* symbol the table holds
TableTimes == 1..2
Tables == UNION {[syms -> TableTimes] : syms \in SUBSET GenSymbols}

\* measure_processing_latency: raised tells that a query or the comparison
\* raised, ingest_latest and process_latest are what the two queries returned
\* returning the delays found even when there are none
measure_processing_latency_unchecked(raised, ingest_latest, process_latest) ==
    IF raised \/ DOMAIN ingest_latest = {} \/ DOMAIN process_latest = {} THEN None
    ELSE Some([symbol \in DOMAIN ingest_latest \cap DOMAIN process_latest |->
                  process_latest[symbol] - ingest_latest[symbol]])

measure_processing_latency(raised, ingest_latest, process_latest) ==
    IF raised \/ DOMAIN ingest_latest = {} \/ DOMAIN process_latest = {} THEN None
    ELSE LET results == [symbol \in DOMAIN ingest_latest \cap DOMAIN process_latest |->
                            process_latest[symbol] - ingest_latest[symbol]]
         IN  IF DOMAIN results # {} THEN Some(results) ELSE None

\* output = {'timestamp': ..., 'total_duration_seconds': ..., 'results': results}
Output(results, start_time, t) ==
    [timestamp |-> t, total_duration_seconds |-> t - start_time, results |-> results]

\* python latency_monitor.py
LInit ==
    /\ now = 0
    /\ metrics = StressTestMetrics
    /\ stats = None
    /\ prev = None
    /\ analysis = None
    /\ hist = NoHist
    /\ conn = None
    /\ mode = "latency"
    /\ phase = "none"
    /\ pc = "main"
    /\ loc = NoLoc
    /\ result = None
    /\ workers = [w \in 1..MaxConnections |-> NoWorker]
    /\ generator = None
    /\ suite = NoSuite
    /\ sink = "steady"
    /\ GenIdle
    /\ monitor = NoMonitor

\* if not self.connect(): return -- connect opens the two connections one after
\* the other and tries them; it returns False when any of that raises
LConnect ==
    /\ pc = "main" /\ mode = "latency"
    /\ \E opened \in 0..2, tested \in BOOLEAN :
          /\ monitor' = [monitor EXCEPT
                            !.ingest_conn = IF opened >= 1 THEN Some(SyncQConnection) ELSE @,
                            !.process_conn = IF opened = 2 THEN Some(SyncQConnection) ELSE @,
                            !.start_time = now]
          /\ IF opened = 2 /\ tested
             THEN pc' = "measure" /\ phase' = LatencyOrder[1]
             ELSE pc' = "exit" /\ phase' = phase
    /\ UNCHANGED <<now, metrics, stats, prev, analysis, hist, conn, mode, loc, result,
                   workers, generator, suite, genVars>>

\* one pass of the loop of measure_ingest_latency: the write returns and its
\* latency is appended, or it raises and is counted in failed_writes
LIngestWrite ==
    /\ pc = "measure" /\ phase = "ingest_write"
    /\ monitor.i < MaxIterations
    /\ \E out \in Outcomes :
          /\ monitor' = [monitor EXCEPT
                            !.latencies = IF out.ok THEN Append(@, out.dur) ELSE @,
                            !.failures = IF out.ok THEN @ ELSE @ + 1,
                            !.i = @ + 1]
          /\ now' = now + out.dur + IngestSleep
    /\ UNCHANGED <<metrics, stats, prev, analysis, hist, testerVars, genVars>>

\* one pass of the loop of measure_query_latency
LQuery ==
    /\ pc = "measure" /\ phase \in QueryKeys
    /\ monitor.i < MaxIterations
    /\ \E out \in Outcomes :
          /\ monitor' = [monitor EXCEPT
                            !.latencies = IF out.ok THEN Append(@, out.dur) ELSE @,
                            !.failures = IF out.ok THEN @ ELSE @ + 1,
                            !.i = @ + 1]
          /\ now' = now + out.dur + IngestSleep
    /\ UNCHANGED <<metrics, stats, prev, analysis, hist, testerVars, genVars>>

\* one pass of the loop of measure_round_trip_latency: the write, the wait, the
\* read; the latency is appended when neither raised and the row was found
LRoundTrip ==
    /\ pc = "measure" /\ phase = "round_trip"
    /\ monitor.i < MaxIterations
    /\ \E write \in Outcomes, read \in Outcomes, found \in BOOLEAN :
          LET took == IF write.ok THEN write.dur + RoundTripWait + read.dur ELSE write.dur
              recorded == write.ok /\ read.ok /\ found
          IN  /\ monitor' = [monitor EXCEPT
                                !.latencies = IF recorded THEN Append(@, took) ELSE @,
                                !.failures = IF recorded THEN @ ELSE @ + 1,
                                !.i = @ + 1]
              /\ now' = now + took + RoundTripSleep
    /\ UNCHANGED <<metrics, stats, prev, analysis, hist, testerVars, genVars>>

\* a measurement with a loop returns self._analyze_latencies(latencies, ...);
\* results[key] is assigned, the suite sleeps and goes on to the next one
LAnalyze ==
    /\ pc = "measure" /\ phase \in {"ingest_write"} \cup QueryKeys
    /\ monitor.i >= MaxIterations
    /\ monitor' = [monitor EXCEPT
                      !.results = (phase :> _analyze_latencies(monitor.latencies,
                                                               TestName(phase))) @@ @,
                      !.recorded = (phase :> monitor.i - monitor.failures) @@ @,
                      !.latencies = <<>>, !.failures = 0, !.i = 0]
    /\ now' = now + CoolDown * MsPerSecond
    /\ phase' = NextMeasurement(phase)
    /\ UNCHANGED <<metrics, stats, prev, analysis, hist, conn, mode, pc, loc, result,
                   workers, generator, suite, genVars>>

\* results['processing'] = self.measure_processing_latency(), and the sleep
LProcessing ==
    /\ pc = "measure" /\ phase = "processing"
    /\ \E raised \in BOOLEAN, ingest_latest \in Tables, process_latest \in Tables :
          monitor' = [monitor EXCEPT
                        !.results =
                            (phase :> measure_processing_latency(raised, ingest_latest,
                                                                 process_latest)) @@ @,
                        !.recorded =
                            (phase :> IF raised THEN 0
                                      ELSE Cardinality(DOMAIN ingest_latest
                                                         \cap DOMAIN process_latest)) @@ @]
    /\ now' = now + CoolDown * MsPerSecond
    /\ phase' = NextMeasurement(phase)
    /\ UNCHANGED <<metrics, stats, prev, analysis, hist, conn, mode, pc, loc, result,
                   workers, generator, suite, genVars>>

\* results['round_trip'] is assigned, the output is put together and written to
\* latency_analysis.json
LSave ==
    /\ pc = "measure" /\ phase = "round_trip"
    /\ monitor.i >= MaxIterations
    /\ LET results == (phase :> _analyze_latencies(monitor.latencies, TestName(phase)))
                         @@ monitor.results
       IN  monitor' = [monitor EXCEPT
                         !.results = results,
                         !.recorded = (phase :> monitor.i - monitor.failures) @@ @,
                         !.latencies = <<>>, !.failures = 0, !.i = 0,
                         !.document = Some(Output(results, monitor.start_time, now)),
                         !.written = @ + 1]
    /\ pc' = "exit"
    /\ UNCHANGED <<now, metrics, stats, prev, analysis, hist, conn, mode, phase, loc,
                   result, workers, generator, suite, genVars>>

LNext ==
    \/ LConnect
    \/ LIngestWrite \/ LQuery \/ LRoundTrip
    \/ LAnalyze \/ LProcessing
    \/ LSave

SpecLatency == LInit /\ [][LNext]_vars

\* ---------------------------------------------------------------- claims: get_stats
\* C4: get_stats returns null whenever messagesSent == 0 and no latency sample was
\* recorded (also when errors > 0), and a non-null result only when at least one
\* sample exists.
C4_NullWithoutSamples ==
    ~IsNone(stats) =>
        /\ (Val(stats).sent = 0 /\ Val(stats).samples = 0) => IsNone(Val(stats).result)
        /\ ~IsNone(Val(stats).result) => Val(stats).samples >= 1

\* C6: for every sample count n >= 1 the indices read for p50, p95 and p99 are at
\* most n-1, so neither get_stats nor _analyze_latencies reads out of range; for
\* n == 0 no index is computed and there are no latency statistics.
InRange(n) ==
    /\ P50Index(n) \in 0..(n - 1)
    /\ P95Index(n) \in 0..(n - 1)
    /\ P99Index(n) \in 0..(n - 1)

C6_IndicesInRange ==
    /\ ~IsNone(stats) =>
          /\ ~Val(stats).raised
          /\ Val(stats).samples >= 1 => InRange(Val(stats).samples)
          /\ Val(stats).samples = 0 => IsNone(Val(Val(stats).result).latency_ms)
    /\ ~IsNone(analysis) =>
          /\ ~Val(analysis).raised
          /\ Val(analysis).samples >= 1 => InRange(Val(analysis).samples)
          /\ Val(analysis).samples = 0 => IsNone(Val(analysis).result)

\* the percentiles of a single sample and of a long list were both read
C6_Witness ==
    /\ ~IsNone(stats) /\ ~IsNone(analysis)
    /\ Val(stats).samples = MaxSamples
    /\ P99Index(MaxSamples) = MaxSamples - 1
    /\ ~IsNone(Val(Val(stats).result).latency_ms)

\* C7: each percentile pXX is the element at index min(floor(n*XX/100), n-1) of
\* the ascending order of the samples, whatever order they were recorded in; for
\* the samples 1..100: p50 in [50,51], p95 in [95,96], p99 in [99,100],
\* median == 50.5.
Smaller(lat, v) == Cardinality({i \in 1..Len(lat) : lat[i] < v})
NotLarger(lat, v) == Cardinality({i \in 1..Len(lat) : lat[i] <= v})

\* the value at 0-based position k of the ascending order of lat, by counting
Ranked(lat, k) ==
    CHOOSE v \in {lat[i] : i \in 1..Len(lat)} :
        Smaller(lat, v) <= k /\ k < NotLarger(lat, v)

Clamped(n, xx) == IF (n * xx) \div 100 < n - 1 THEN (n * xx) \div 100 ELSE n - 1

IsOneToHundred(lat) == Len(lat) = 100 /\ {lat[i] : i \in 1..100} = 1..100

C7_Percentiles ==
    LET lat == metrics.latencies
        n == Len(lat)
    IN  /\ (~IsNone(stats) /\ n >= 1) =>
              LET l == Val(Val(Val(stats).result).latency_ms) IN
              /\ l.p50 = Ranked(lat, Clamped(n, 50))
              /\ l.p95 = Ranked(lat, Clamped(n, 95))
              /\ l.p99 = Ranked(lat, Clamped(n, 99))
              /\ IsOneToHundred(lat) =>
                    l.p50 \in 50..51 /\ l.p95 \in 95..96 /\ l.p99 \in 99..100
        /\ (~IsNone(analysis) /\ n >= 1) =>
              LET a == Val(Val(analysis).result) IN
              /\ a.p95 = Ranked(lat, Clamped(n, 95))
              /\ a.p99 = Ranked(lat, Clamped(n, 99))
              /\ IsOneToHundred(lat) =>
                    a.p95 \in 95..96 /\ a.p99 \in 99..100 /\ a.median = <<101, 2>>

\* the samples 1..100, recorded in an order that is not ascending, were summarised
C7_Witness ==
    /\ ~IsNone(stats) /\ ~IsNone(analysis)
    /\ IsOneToHundred(metrics.latencies)
    /\ metrics.latencies[1] # 1
    /\ Val(Val(analysis).result).median = <<101, 2>>

\* C8 as stated: two get_stats calls with no record_message / record_error
\* between them return identical results in every field, throughput and duration
\* included, whatever time passes between them.
SameCalls == ~IsNone(prev) /\ ~IsNone(stats) /\ Val(prev).calls = Val(stats).calls

C8_Idempotent == SameCalls => Val(prev).result = Val(stats).result

\* C8 as the code has it: the two results agree in messages_sent, errors,
\* error_rate and the latency statistics; duration_seconds and throughput are
\* computed from the clock at each call, so the results are identical when the two
\* calls read the same clock and start_time.
C8_IdempotentCounts ==
    SameCalls =>
        LET a == Val(Val(prev).result)
            b == Val(Val(stats).result)
        IN  /\ a.messages_sent = b.messages_sent
            /\ a.errors = b.errors
            /\ a.error_rate = b.error_rate
            /\ a.latency_ms = b.latency_ms
            /\ (Val(prev).at = Val(stats).at /\ Val(prev).start_time = Val(stats).start_time)
                  => a = b

\* two calls, time passing between them, on an object holding samples
C8_Witness ==
    /\ SameCalls
    /\ Val(prev).at < Val(stats).at
    /\ Val(stats).samples >= 1
    /\ ~IsNone(Val(stats).start_time)
    /\ Val(Val(prev).result).duration_seconds # Val(Val(stats).result).duration_seconds

\* ---------------------------------------------------------------- claims: the phases
Returned == pc \in {"returned", "exit"} /\ ~IsNone(result)

\* C1: in the concurrent phase with N workers that each make M sends, all of which
\* succeed, every interleaving ends with messagesSent == N*M and errors == 0.
C1_AllSendsCounted ==
    (phase = "concurrent" /\ Returned /\ hist.conn_failures = 0 /\ hist.faults = 0) =>
        /\ metrics.messages_sent = loc.K * loc.M
        /\ metrics.errors = 0
        /\ Val(result).messages_sent = loc.K * loc.M
        /\ Val(result).errors = 0

\* two workers, two sends each, none faulted, and the phase has returned
C1_Witness ==
    /\ phase = "concurrent" /\ Returned
    /\ loc.K >= 2 /\ loc.M >= 2
    /\ hist.conn_failures = 0 /\ hist.faults = 0
    /\ hist.successes = loc.K * loc.M

\* C2: a send that raises never aborts a phase: every worker of the concurrent
\* phase still makes all its messages_per_connection sends, so that
\* messagesSent + errors == K*M when all connections were opened.
C2_AllSendsAttempted ==
    (phase = "concurrent" /\ Returned /\ hist.conn_failures = 0) =>
        /\ hist.attempts = loc.K * loc.M
        /\ metrics.messages_sent + metrics.errors = loc.K * loc.M

\* C3: in the phases with one connection every send counts in exactly one of
\* messagesSent (it returned) and errors (it raised); when every send raises,
\* errors == totalAttempts and messagesSent == 0.
C3_OneCounterPerSend ==
    /\ metrics.messages_sent = hist.successes
    /\ metrics.errors = hist.faults
    /\ metrics.messages_sent + metrics.errors = hist.attempts
    /\ hist.successes = 0 => (metrics.errors = hist.attempts /\ metrics.messages_sent = 0)

\* a phase has returned in which two or more sends were made and all of them raised
C3_Witness ==
    /\ phase \in PhaseModes /\ Returned
    /\ hist.attempts >= 2
    /\ hist.successes = 0
    /\ metrics.errors = hist.attempts

\* C5: after any interleaving of record_message calls the latency list holds one
\* element for every call that was given a latency, a latency of 0 included, and
\* messagesSent has counted every call.
C5_LatenciesComplete ==
    /\ Len(metrics.latencies) = hist.given
    /\ metrics.messages_sent = hist.given

\* C9: a burst over S symbols with M messages per symbol, no send raising and
\* latencies that may be 0, ends with messagesSent == S*M, errors == 0 and a
\* result that is not null.
C9_BurstCounts ==
    (phase = "burst" /\ pc \in {"returned", "exit"} /\ hist.faults = 0) =>
        /\ ~IsNone(result)
        /\ Val(result).messages_sent = loc.S * loc.M
        /\ Val(result).errors = 0

\* a burst of two symbols, two messages each, has returned; no send raised and
\* one of them took no measurable time
C9_Witness ==
    /\ phase = "burst" /\ Returned
    /\ loc.S = 2 /\ loc.M = 2
    /\ hist.faults = 0 /\ hist.successes = 4
    /\ Len(metrics.latencies) < 4

\* C10: a connection that cannot be opened is fatal: after connect() fails no
\* send is made and no result is produced, and a worker of the concurrent phase
\* that cannot open its connection makes the phase fail instead of returning
\* statistics.
C10_ConnectionFatal ==
    /\ (pc = "exit" /\ IsNone(conn)) => (hist.attempts = 0 /\ IsNone(result))
    /\ (phase = "concurrent" /\ hist.conn_failures > 0) => IsNone(result)

\* ---------------------------------------------------------------- claims: the suite
SuiteOrder == <<"burst", "sustained", "spike", "concurrent", "memory">>
SuitePhases == {SuiteOrder[k] : k \in 1..Len(SuiteOrder)}
PhaseIndex(p) == CHOOSE k \in 1..Len(SuiteOrder) : SuiteOrder[k] = p
PhasesBefore(p) == {SuiteOrder[k] : k \in 1..(PhaseIndex(p) - 1)}

SuiteOver == mode = "suite" /\ pc \in {"exit", "raised"}

\* C11: when a phase of the full suite raises an exception past its own boundary,
\* the suite entry point catches it, records a null result for that phase, still
\* runs the phases that follow and writes the result document.
C11_SuiteSurvivesPhaseFault ==
    ~IsNone(suite.raised) =>
        /\ pc # "raised"
        /\ Val(suite.raised) \in DOMAIN suite.tests
        /\ IsNone(suite.tests[Val(suite.raised)])
        /\ pc = "exit" => (suite.written = 1 /\ DOMAIN suite.tests = SuitePhases)

\* C13: the phases of the suite run one after the other in the order burst,
\* sustained, spike, concurrent, memory: while a phase runs and sends, every phase
\* before it has returned its result and no later one has begun; threads of
\* workers run, and their sends interleave, only within the concurrent phase.
C13_PhasesInOrder ==
    /\ (mode = "suite" /\ phase \in SuitePhases) =>
          /\ PhasesBefore(phase) \subseteq DOMAIN suite.tests
          /\ DOMAIN suite.tests \subseteq PhasesBefore(phase) \cup {phase}
          /\ phase \in DOMAIN suite.tests => pc = "exit"
          /\ \A p \in DOMAIN suite.tests : ~IsNone(suite.tests[p])
    /\ (mode = "suite" /\ phase \notin SuitePhases) => (hist.passes = 0 /\ suite.tests = <<>>)
    /\ \A w \in 1..MaxConnections :
          workers[w].pc \notin {"unstarted", "done"} => phase = "concurrent"

\* the suite has run to its end; every phase sent and counted a message, and in
\* the concurrent phase every worker did
C13_Witness ==
    /\ mode = "suite" /\ pc = "exit"
    /\ DOMAIN suite.tests = SuitePhases
    /\ \A p \in SuitePhases : Val(suite.tests[p]).messages_sent >= 1
    /\ Val(suite.tests["concurrent"]).messages_sent = MaxConnections * SuiteScale

\* C14: every phase starts on fresh metrics: messages_sent == 0, errors == 0, no
\* latencies and start_time set when its first pass begins, so the counters and
\* the result of a phase count the sends of that phase only, whatever phases ran
\* before it on the same StressTester.
C14_MetricsResetPerPhase ==
    (mode = "suite" /\ pc \in PhasePcs \cup {"returned"}) =>
        /\ ~IsNone(metrics.start_time)
        /\ Val(metrics.start_time) <= now
        /\ Val(metrics.start_time) >= (PhaseIndex(phase) - 1) * SuiteSleep * MsPerSecond
        /\ metrics.messages_sent <= hist.successes
        /\ metrics.errors <= hist.faults + hist.conn_failures
        /\ Len(metrics.latencies) <= hist.successes
        /\ (hist.passes = 0 /\ hist.conn_failures = 0) =>
              (metrics.messages_sent = 0 /\ metrics.errors = 0 /\ metrics.latencies = <<>>)
        /\ pc = "returned" =>
              /\ Val(result).messages_sent = hist.successes
              /\ Val(result).errors = hist.faults + hist.conn_failures

\* the last phase has returned a result that counts its own single send, after
\* four phases that each counted a message
C14_Witness ==
    /\ mode = "suite" /\ phase = "memory" /\ pc = "returned"
    /\ \A p \in PhasesBefore("memory") : Val(suite.tests[p]).messages_sent >= 1
    /\ hist.successes = SuiteScale
    /\ Val(result).messages_sent = SuiteScale

\* C15: the result document of the suite is written exactly once per run of the
\* suite, at its end, and maps every phase of the suite to the result of that
\* phase or null; when the suite is cut short the phases completed so far are
\* still reported.
C15_DocumentWrittenOnce ==
    /\ suite.written <= 1
    /\ suite.written = 1 => pc = "exit"
    /\ SuiteOver =>
          /\ suite.written = 1
          /\ ~IsNone(suite.document)
          /\ DOMAIN Val(suite.document).tests = {TestKey(p) : p \in SuitePhases}
          /\ \A p \in DOMAIN suite.tests :
                Val(suite.document).tests[TestKey(p)] = suite.tests[p]

\* ---------------------------------------------------------------- claims: the spike phase
\* C12: in spike_test every pass is paced at spike_rate when it starts within
\* spike_duration of the start of the spike window and at normal_rate otherwise,
\* and a new spike window begins spike_duration + 20 s (with the defaults: 30 s)
\* after the start of the one before, whatever the sends take.
C12_SpikeEveryThirtySeconds ==
    [][(pc = "spike" /\ hist'.passes = hist.passes + 1) =>
          /\ hist'.slept = (IF now - loc.last_spike < loc.spike_duration
                            THEN loc.spike_interval ELSE loc.interval)
          /\ loc'.last_spike # loc.last_spike =>
                loc'.last_spike =
                    loc.last_spike + loc.spike_duration + SpikeGapSeconds * MsPerSecond]_vars

\* ---------------------------------------------------------------- claims: generate_bar
Ordered(b) ==
    /\ b.low <= b.open /\ b.open <= b.high
    /\ b.low <= b.close /\ b.close <= b.high

RECURSIVE WorkerCalls(_)
\* the sink calls made through the connections of the workers 1..k
WorkerCalls(k) ==
    IF k = 0 THEN 0
    ELSE WorkerCalls(k - 1)
            + (IF IsNone(workers[k].conn) THEN 0 ELSE Val(workers[k].conn).calls)

C18_ResultAfterAllWorkers ==
    /\ []((phase = "concurrent" /\ pc \in {"returned", "exit"}) =>
            /\ \A w \in 1..loc.K : workers[w].pc = "done"
            /\ Val(result).messages_sent = metrics.messages_sent
            /\ Val(result).errors = metrics.errors
            /\ metrics.messages_sent + metrics.errors = hist.calls)
    /\ ((phase = "concurrent" /\ pc = "spawn") ~> (pc \in {"returned", "exit"}))

\* the phase has returned; of its two workers one ended in a fault and one sent
\* all its messages
C18_Witness ==
    /\ phase = "concurrent" /\ pc = "returned"
    /\ loc.K = 2
    /\ hist.faults = 1
    /\ Val(result).errors = 1
    /\ Val(result).messages_sent >= loc.M

\* ---------------------------------------------------------------- claims: the loops
TimedPhases == {"sustained", "spike", "memory"}

\* C19: a timed phase (sustained, spike, memory) tests its end time before every
\* pass and nowhere else: no send begins in a pass that started at or after the
\* end time, a send that has begun runs to its return or fault even past the end
\* time, and the phase returns at the first test that follows the end time.
C19_BoundCheckedBeforeEachPass ==
    phase \in TimedPhases =>
        /\ hist.passes > 0 => hist.last_start < loc.end_time
        /\ hist.attempts = hist.passes
        /\ hist.successes + hist.faults = hist.attempts
        /\ pc = phase => now >= hist.last_start + hist.slept
        /\ pc \in {"returned", "exit"} =>
              /\ now >= loc.end_time
              /\ Val(stats).at = now
              /\ hist.passes > 0 => now >= hist.last_start + hist.slept

\* a timed phase has returned whose last send began before the end time and
\* came back more than half a minute after it
C19_Witness ==
    /\ phase \in TimedPhases /\ pc = "returned"
    /\ hist.passes >= 1
    /\ hist.last_start < loc.end_time
    /\ now - loc.end_time >= CheckIntervalSeconds * MsPerSecond
    /\ hist.successes = hist.passes

\* C20: nothing is sent twice: every bar that is generated is handed to the sink
\* once; after a send that failed the loop generates a new bar for its next send,
\* so the calls of the sink, the bars generated and the passes of the loop are
\* equal in number.
C20_NoRetries ==
    (phase \in PhaseModes /\ ~IsNone(generator)) =>
        /\ Val(conn).calls = hist.passes
        /\ Val(generator).generated = hist.passes
        /\ hist.attempts = hist.passes

\* a phase has returned in which a send failed and the next one went through
C20_Witness ==
    /\ phase \in PhaseModes /\ pc = "returned"
    /\ hist.faults >= 1 /\ hist.successes >= 1
    /\ Val(conn).calls = hist.faults + hist.successes
    /\ Val(generator).generated = Val(conn).calls

\* ---------------------------------------------------------------- claims: pacing
\* C21: the pacing of the sustained phase does not make up for the time a send
\* took: every pass sleeps 1/msg_per_second after its send, however long the
\* send took, so a pass ends, and the next one can start, the duration of the
\* send plus 1/msg_per_second after it started, never sooner.
C21_PacerNonCompensating ==
    (phase = "sustained" /\ hist.passes > 0) =>
        /\ hist.slept * loc.msg_per_second = MsPerSecond
        /\ now = hist.last_start + hist.took + hist.slept
        /\ now - hist.last_start >= hist.slept

\* a pass of the sustained phase whose send took as long as the interval, and
\* which slept the whole interval after it
C21_Witness ==
    /\ phase = "sustained" /\ hist.passes >= 2
    /\ hist.took >= hist.slept /\ hist.took > 0
    /\ hist.slept * loc.msg_per_second = MsPerSecond
    /\ now = hist.last_start + 2 * hist.slept

\* ---------------------------------------------------------------- claims: the rates
\* the fraction q is the quotient n / d
IsQuotient(q, n, d) == q[2] > 0 /\ q[1] * d = n * q[2]

\* C22: get_stats reports error_rate = errors / messages_sent, the errors over
\* the messages that went through and not over all attempts, and 0 when
\* messages_sent is 0; throughput is messages_sent over the seconds elapsed since
\* start_time, and 0 when none have elapsed; no call divides by zero.
C22_Rates ==
    ~IsNone(stats) =>
        LET sn == Val(stats)
            elapsed == IF IsNone(sn.start_time) THEN 0 ELSE sn.at - Val(sn.start_time)
        IN  /\ ~sn.raised
            /\ sn.errors = sn.calls - sn.sent
            /\ Val(sn.result).messages_sent = sn.sent
            /\ Val(sn.result).errors = sn.errors
            /\ sn.sent = 0 => Val(sn.result).error_rate = Zero
            /\ sn.sent > 0 => IsQuotient(Val(sn.result).error_rate, sn.errors, sn.sent)
            /\ elapsed = 0 => Val(sn.result).throughput_msg_per_sec = Zero
            /\ elapsed > 0 =>
                  IsQuotient(Val(sn.result).throughput_msg_per_sec, sn.sent, elapsed)

\* a get_stats with errors and no message, rate 0, and a later one with one
\* message and two errors, rate 2, read after time has passed
C22_Witness ==
    /\ ~IsNone(prev) /\ ~IsNone(stats)
    /\ Val(prev).sent = 0 /\ Val(prev).errors >= 1
    /\ Val(Val(prev).result).error_rate = Zero
    /\ Val(stats).sent = 1 /\ Val(stats).errors = 2
    /\ Val(Val(stats).result).error_rate = <<2, 1>>
    /\ Val(Val(stats).result).throughput_msg_per_sec = <<1, 2>>

\* ---------------------------------------------------------------- claims: the memory phase
\* C23: in memory_leak_test a memory query that raises does not end the phase:
\* the loop sends on until the end time, the fault changes neither messages_sent
\* nor errors nor the latencies, nothing is appended to memory_samples for it,
\* and the phase returns its statistics together with memory_samples.
C23_MemoryCheckFaultNotFatal ==
    phase = "memory" =>
        /\ pc \in {"dispatch", "memory", "returned", "exit"}
        /\ metrics.messages_sent = hist.successes
        /\ metrics.errors = hist.faults
        /\ Len(metrics.latencies) = Cardinality({k \in 1..Len(metrics.latencies) :
                                                    metrics.latencies[k] > 0})
        /\ Len(metrics.latencies) <= hist.successes
        /\ Len(loc.memory_samples) = hist.checks - hist.check_faults
        /\ pc = "memory" => hist.passes = hist.attempts
        /\ pc \in {"returned", "exit"} =>
              /\ now >= loc.end_time
              /\ ~IsNone(result)
              /\ Val(result).messages_sent = hist.successes
              /\ Val(result).errors = hist.faults
              /\ Val(result).memory_samples = loc.memory_samples

\* the phase has returned; its first memory query raised, a send and a query
\* that returned followed it
C23_Witness ==
    /\ phase = "memory" /\ pc = "returned"
    /\ hist.check_faults = 1 /\ hist.checks = 2
    /\ Len(loc.memory_samples) = 1
    /\ loc.memory_samples[1].time > 2 * CheckIntervalSeconds * MsPerSecond
    /\ hist.successes >= 2
    /\ Val(result).memory_samples = loc.memory_samples

\* ---------------------------------------------------------------- claims: the latency suite
\* the measurements that come before the one with this key
MeasurementsBefore(key) ==
    {LatencyOrder[k] : k \in 1..((CHOOSE n \in 1..Len(LatencyOrder) : LatencyOrder[n] = key) - 1)}

\* C24: a measurement of the latency suite that ends without a recorded sample
\* (every write, query or round trip failed, or no symbol is in both tables)
\* returns None and raises nothing, and run_full_latency_analysis goes on with
\* the next measurement up to the file it writes.
C24_NoSamplesNoResult ==
    (mode = "latency" /\ phase \in LatencyKeys) =>
        /\ \A k \in DOMAIN monitor.results :
              monitor.recorded[k] = 0 => IsNone(monitor.results[k])
        /\ pc = "measure" => DOMAIN monitor.results = MeasurementsBefore(phase)
        /\ pc = "exit" =>
              /\ DOMAIN monitor.results = LatencyKeys
              /\ monitor.written = 1
              /\ Val(monitor.document).results = monitor.results

\* the suite has run to its file; the first measurement and the comparison of
\* the tables ended without a sample, the measurements after each recorded some
C24_Witness ==
    /\ mode = "latency" /\ pc = "exit" /\ monitor.written = 1
    /\ monitor.recorded["ingest_write"] = 0 /\ IsNone(monitor.results["ingest_write"])
    /\ monitor.recorded["processing"] = 0 /\ IsNone(monitor.results["processing"])
    /\ ~IsNone(monitor.results["query_simple"])
    /\ Val(monitor.results["query_simple"]).count = MaxIterations
    /\ ~IsNone(monitor.results["round_trip"])
    /\ Val(monitor.results["round_trip"]).count >= 1

\* ---------------------------------------------------------------- claims: the burst
\* how many of the bars sent so far were for the symbol at position sym
SentFor(sym) == Cardinality({k \in 1..Len(hist.order) : hist.order[k] = sym})

\* C25: burst_test sends one bar after the other, the rounds in the outer loop
\* and the symbols in the inner one: the k-th attempt (from 0) is for
\* symbols[k mod S], and the phase returns after S * messages_per_symbol
\* attempts, messages_per_symbol for every symbol, whether or not sends raise.
C25_BurstOrder ==
    (phase = "burst" /\ pc # "dispatch") =>
        /\ Len(hist.order) = hist.attempts
        /\ \A k \in 1..Len(hist.order) : hist.order[k] = (k - 1) % loc.S
        /\ hist.attempts <= loc.S * loc.M
        /\ hist.successes + hist.faults = hist.attempts
        /\ pc \in {"returned", "exit"} =>
              /\ hist.attempts = loc.S * loc.M
              /\ \A sym \in 0..(loc.S - 1) : SentFor(sym) = loc.M

\* a burst of ten rounds over two symbols has returned; some of its sends
\* raised and some went through
C25_Witness ==
    /\ phase = "burst" /\ pc = "returned"
    /\ loc.S = 2 /\ loc.M = ProgressEvery
    /\ hist.faults >= 2 /\ hist.successes >= 2
    /\ hist.order[2] = 1 /\ hist.order[3] = 0
    /\ SentFor(0) = ProgressEvery /\ SentFor(1) = ProgressEvery

\* ---------------------------------------------------------------- claims: the faults of a worker
RECURSIVE WorkerMessages(_)
\* the messages the workers 1..k have recorded
WorkerMessages(k) == IF k = 0 THEN 0 ELSE WorkerMessages(k - 1) + workers[k].i

\* the workers that ended before their last message
StoppedEarly == {w \in 1..loc.K : workers[w].pc = "done" /\ workers[w].i < loc.M}

\* C26: a worker of the concurrent phase ends at its first fault, a connection
\* that cannot be opened or a call that raises, and records one error for it:
\* when the phase has returned errors <= K, every worker has recorded either M
\* messages and no error or fewer than M messages and one error, and
\* messages_sent + errors <= K * M.
C26_WorkerStopsAtFirstFault ==
    /\ (phase = "concurrent" /\ pc = "spawn") =>
          \A w \in 1..loc.K :
              ~IsNone(workers[w].conn) =>
                  Val(workers[w].conn).calls <= workers[w].i + 1
    /\ (phase = "concurrent" /\ pc \in {"returned", "exit"}) =>
          /\ hist.faults + hist.conn_failures = Cardinality(StoppedEarly)
          /\ metrics.errors = Cardinality(StoppedEarly)
          /\ metrics.errors <= loc.K
          /\ metrics.messages_sent = WorkerMessages(loc.K)
          /\ \A w \in 1..loc.K : workers[w].i <= loc.M
          /\ metrics.messages_sent + metrics.errors <= loc.K * loc.M
          /\ Val(result).errors = metrics.errors
          /\ Val(result).messages_sent = metrics.messages_sent

\* the phase has returned; one worker could not connect, the other sent its
\* first message and ended in the call for its second
C26_Witness ==
    /\ phase = "concurrent" /\ pc = "returned"
    /\ loc.K = 2 /\ loc.M = 2
    /\ hist.conn_failures = 1 /\ hist.faults = 1
    /\ metrics.errors = 2 /\ metrics.messages_sent = 1
    /\ Cardinality(StoppedEarly) = 2

\* ---------------------------------------------------------------- claims: the lock
\* where a thread is while it holds the lock of the metrics object
LockedPcs == {"record_message_store", "record_error_store"}

\* where a thread is while it waits for that lock
WaitingPcs == {"record_message", "except"}

\* C27: the lock of the metrics object is held only inside record_message,
\* record_error and get_stats and is given back when they are left; no worker
\* holds it during a call of the sink, so a worker whose call never returns
\* keeps no other worker from recording: every worker that has a message or an
\* error to record does record it, and the lock is never left held.
C27_LockOnlyInsideMetrics ==
    /\ [](/\ \A w \in 1..MaxConnections :
                (metrics.lock = Some(w)) <=> (workers[w].pc \in LockedPcs)
          /\ metrics.lock # Free =>
                \E w \in 1..MaxConnections : metrics.lock = Some(w)
          /\ pc \in {"returned", "exit"} => metrics.lock = Free)
    /\ \A w \in 1..MaxConnections :
          (workers[w].pc \in WaitingPcs) ~> (workers[w].pc \in {"loop", "done"})

\* one worker is in a call of the sink while the other holds the lock to record
\* its message
C27_Witness ==
    /\ phase = "concurrent" /\ pc = "spawn"
    /\ workers[1].pc = "call"
    /\ workers[2].pc = "record_message_store"
    /\ metrics.lock = Some(2)

\* ---------------------------------------------------------------- claims: reading the metrics
\* C28: get_stats only reads: when it returns, messages_sent, errors, start_time
\* and the latencies, in their order, are what the call found, so the progress
\* readings burst_test takes every tenth round leave the counters of the phase,
\* and the result it returns, as the sends made them.
C28_GetStatsReadOnly ==
    /\ [][stats' # stats =>
             /\ metrics'.messages_sent = Val(stats').sent
             /\ metrics'.errors = Val(stats').errors
             /\ metrics'.latencies = Val(stats').latencies
             /\ metrics'.start_time = Val(stats').start_time]_vars
    /\ [](phase = "burst" =>
             /\ metrics.messages_sent = hist.successes
             /\ metrics.errors = hist.faults
             /\ Len(metrics.latencies) = hist.successes
             /\ pc \in {"returned", "exit"} =>
                   /\ Val(result).messages_sent = hist.successes
                   /\ Val(result).errors = hist.faults)

\* a burst of twenty rounds after its first progress reading: the reading saw
\* messages and errors, and messages and errors have been counted since
C28_Witness ==
    /\ phase = "burst" /\ pc = "burst"
    /\ loc.M = 2 * ProgressEvery /\ loc.i > ProgressEvery
    /\ ~IsNone(stats)
    /\ Val(stats).sent >= 1 /\ Val(stats).errors >= 1
    /\ metrics.messages_sent > Val(stats).sent
    /\ metrics.errors > Val(stats).errors
    /\ metrics.messages_sent = hist.successes

\* ---------------------------------------------------------------- claims: the counters
\* C29: on one metrics object messages_sent and errors never decrease and there
\* are never more latency samples than messages_sent; record_error changes
\* neither messages_sent nor the latencies, and record_message does not change
\* errors.
C29_CountersMonotone ==
    /\ [](Len(metrics.latencies) <= metrics.messages_sent)
    /\ [][/\ metrics'.messages_sent >= metrics.messages_sent
          /\ metrics'.errors >= metrics.errors
          /\ metrics'.errors # metrics.errors =>
                /\ metrics'.errors = metrics.errors + 1
                /\ metrics'.messages_sent = metrics.messages_sent
                /\ metrics'.latencies = metrics.latencies
          /\ metrics'.messages_sent # metrics.messages_sent =>
                /\ metrics'.messages_sent = metrics.messages_sent + 1
                /\ metrics'.errors = metrics.errors]_vars

\* an object that has recorded two messages, one of them without a latency, and
\* an error
C29_Witness ==
    /\ metrics.messages_sent = 2 /\ metrics.errors = 1
    /\ Len(metrics.latencies) = 1
    /\ hist.calls = 3

\* ---------------------------------------------------------------- claims: ordered statistics
\* the value v is one of the samples
Occurs(v, lat) == \E i \in 1..Len(lat) : lat[i] = v

\* C30: whenever there are latency samples, the statistics get_stats reports
\* are ordered min <= p50 <= p95 <= p99 <= max and those _analyze_latencies
\* reports min <= median <= p95 <= p99 <= max, and every percentile reported
\* (p50, p95, p99) is one of the samples.
C30_StatisticsOrdered ==
    LET lat == metrics.latencies IN
    /\ (~IsNone(stats) /\ lat # <<>>) =>
          LET l == Val(Val(Val(stats).result).latency_ms) IN
          /\ l.min <= l.p50 /\ l.p50 <= l.p95 /\ l.p95 <= l.p99 /\ l.p99 <= l.max
          /\ Occurs(l.p50, lat) /\ Occurs(l.p95, lat) /\ Occurs(l.p99, lat)
    /\ (~IsNone(analysis) /\ lat # <<>>) =>
          LET a == Val(Val(analysis).result) IN
          /\ a.min * a.median[2] <= a.median[1]
          /\ a.median[1] <= a.p95 * a.median[2]
          /\ a.p95 <= a.p99 /\ a.p99 <= a.max
          /\ Occurs(a.p95, lat) /\ Occurs(a.p99, lat)

\* a hundred samples recorded from the largest to the smallest were summarised
\* by both; the five statistics of get_stats differ from one another
C30_Witness ==
    /\ ~IsNone(stats) /\ ~IsNone(analysis)
    /\ Len(metrics.latencies) = MaxSamples
    /\ metrics.latencies[1] > metrics.latencies[2]
    /\ LET l == Val(Val(Val(stats).result).latency_ms) IN
         l.min < l.p50 /\ l.p50 < l.p95 /\ l.p95 < l.p99 /\ l.p99 <= l.max

====
